---- MODULE Spec2Model ----
(***************************************************************************)
(* DamSafetyMonitor (src/contracts/DamSafetyMonitor.sol): the on-chain     *)
(* store of encrypted sensor records, the request/callback protocol with   *)
(* the FHE coprocessor, the safety thresholds and the maintenance ledger.  *)
(*                                                                         *)
(* Every public function is one action.  A transaction that reverts        *)
(* leaves the contract storage and the event log as they were; only        *)
(* `last` (what the caller observes of the most recent call) changes.      *)
(* The coprocessor side (the requests it was sent, the request ids it      *)
(* handed out, the ids it has answered) is kept in `requests`,             *)
(* `requestCounter` and `delivered`; the contract itself stores none of it.*)
(***************************************************************************)
EXTENDS Integers, Sequences, FiniteSets, Bags

\* ---------------------------------------------------------------- bounds
MaxRecords == 2
MaxRequests == 2
MaxHistory == 2
MaxWarnings == 2
MaxTimestamp == 1
MaxSteps == 4

\* ------------------------------------------------------ program constants
DefaultSeepageThreshold == 500
DefaultDeformationThreshold == 100

\* ------------------------------------------------------------ input sets
\* Ids a caller may name: 0 (never a record id) and the ids of the records
\* the bound allows (those above dataCount are not records yet).
MaxId == MaxRecords

Ids == 0..MaxId
Dams == 1..2
Callers == {"operator", "other"}
Proofs == {"valid", "invalid"}
ActionTexts == {"", "inspect"}

\* ------------------------------------------------------------ FHE handles
\* euint32 / ebool are opaque 256-bit handles.  A storage slot that was
\* never written holds the null handle; FHE.asEuint32 / FHE.asEbool make
\* the handle of a trivially encrypted plaintext; a caller supplies
\* handles of externally encrypted inputs.
NullHandle == [kind |-> "null", val |-> 0]

asEuint32(v) == [kind |-> "trivial32", val |-> v]

asEbool(b) == [kind |-> "trivialbool", val |-> IF b THEN 1 ELSE 0]

InputHandle(k) == [kind |-> "input", val |-> k]

\* The readings a sensor submits: three distinct ciphertext handles each.
SensorReadings ==
    {<<InputHandle(10 * k + 1), InputHandle(10 * k + 2), InputHandle(10 * k + 3)>> :
        k \in {1}}

\* The threshold pairs an operator may install.
ThresholdUpdates ==
    {<<InputHandle(10 * k + 4), InputHandle(10 * k + 5)>> : k \in {1}}

toBytes32(h) == <<h.kind, h.val>>

\* The result bytes of a callback: abi.encode(uint32, bool).
ResultPayloads == [riskScore : {7}, warningFlag : BOOLEAN]

abiDecode(results) == <<results.riskScore, results.warningFlag>>

\* ------------------------------------------------------------------ state
VARIABLES
    sensorData,                     \* mapping(uint256 => EncryptedSensorData)
    riskAssessments,                \* mapping(uint256 => RiskAssessment)
    dataCount,                      \* uint256
    encryptedSeepageThreshold,      \* euint32
    encryptedDeformationThreshold,  \* euint32
    maintenanceHistory,             \* mapping(uint256 => MaintenanceRecord[])
    events,                         \* the contract's event log, as a bag
    blockTimestamp,                 \* block.timestamp
    requestCounter,                 \* coprocessor: next request id to hand out
    requests,                       \* coprocessor: computations it was sent
    delivered,                      \* request ids of callbacks that succeeded
    steps,                        \* transactions and blocks that went through so far
    last                            \* the most recent call and its outcome

vars == <<sensorData, riskAssessments, dataCount, encryptedSeepageThreshold,
          encryptedDeformationThreshold, maintenanceHistory, events,
          blockTimestamp, requestCounter, requests, delivered, steps, last>>

storage == <<sensorData, riskAssessments, dataCount, encryptedSeepageThreshold,
             encryptedDeformationThreshold, maintenanceHistory>>

coprocessor == <<requestCounter, requests, delivered>>

\* Default (zero) values of the two mapped structs.
EmptySensorData ==
    [encryptedSeepage |-> NullHandle, encryptedDeformation |-> NullHandle,
     encryptedPressure |-> NullHandle, timestamp |-> 0]

EmptyRiskAssessment ==
    [encryptedRiskScore |-> NullHandle, encryptedWarningFlag |-> NullHandle,
     isAssessed |-> FALSE]

NoCall ==
    [op |-> "constructor", id |-> 0, proof |-> "none", outcome |-> "ok",
     emitted |-> <<>>]

Call(op, id, proof, outcome, emitted) ==
    [op |-> op, id |-> id, proof |-> proof, outcome |-> outcome,
     emitted |-> emitted]

\* modifier onlyOperator: the body runs for every caller.
onlyOperator(caller) == TRUE

\* FHE.checkSignatures: reverts unless the proof authenticates the callback.
checkSignatures(requestId, results, proof) == proof = "valid"

Init ==
    /\ sensorData = [i \in Ids |-> EmptySensorData]
    /\ riskAssessments = [i \in Ids |-> EmptyRiskAssessment]
    /\ dataCount = 0
    /\ encryptedSeepageThreshold = asEuint32(DefaultSeepageThreshold)
    /\ encryptedDeformationThreshold = asEuint32(DefaultDeformationThreshold)
    /\ maintenanceHistory = [d \in Dams |-> <<>>]
    /\ events = EmptyBag
    /\ blockTimestamp = 0
    /\ requestCounter = 0
    /\ requests = <<>>
    /\ delivered = {}
    /\ steps = 0
    /\ last = NoCall

\* ----------------------------------------------------------------- events
Event(name, id, timestamp, action) ==
    [name |-> name, id |-> id, timestamp |-> timestamp, action |-> action]

SensorDataReceived(dataId, timestamp) ==
    Event("SensorDataReceived", dataId, timestamp, "")

RiskAssessmentRequested(dataId) == Event("RiskAssessmentRequested", dataId, 0, "")

RiskWarningGenerated(dataId) == Event("RiskWarningGenerated", dataId, 0, "")

MaintenanceRecorded(damId, action) == Event("MaintenanceRecorded", damId, 0, action)

\* emit: the events of one transaction join the log.
Emit(log, emitted) ==
    log (+) [e \in {emitted[i] : i \in 1..Len(emitted)} |->
                Cardinality({i \in 1..Len(emitted) : emitted[i] = e})]

\* How many RiskWarningGenerated events the log holds.
WarningsLogged ==
    LET warnings == {e \in BagToSet(events) : e.name = "RiskWarningGenerated"}
        RECURSIVE Sum(_)
        Sum(S) == IF S = {} THEN 0
                  ELSE LET e == CHOOSE x \in S : TRUE
                       IN CopiesIn(e, events) + Sum(S \ {e})
    IN Sum(warnings)

\* A reverted transaction: storage, log and coprocessor are untouched.
Revert(op, id, proof, reason) ==
    /\ last' = Call(op, id, proof, reason, <<>>)
    /\ UNCHANGED <<storage, events, blockTimestamp, coprocessor, steps>>

\* A transaction that goes through, or a block that is mined.
Mined ==
    /\ steps < MaxSteps
    /\ steps' = steps + 1

\* ---------------------------------------------------------------- actions
\* Mutant of submitSensorData: the id is taken before the increment
\* (dataCount++ for ++dataCount).
submitSensorData_PostIncrement(caller, seepage, deformation, pressure) ==
    /\ dataCount < MaxRecords
    /\ LET newId == dataCount IN
       /\ Mined
       /\ dataCount' = dataCount + 1
       /\ sensorData' = [sensorData EXCEPT ![newId] =
               [encryptedSeepage |-> seepage,
                encryptedDeformation |-> deformation,
                encryptedPressure |-> pressure,
                timestamp |-> blockTimestamp]]
       /\ riskAssessments' = [riskAssessments EXCEPT ![newId] =
               [encryptedRiskScore |-> asEuint32(0),
                encryptedWarningFlag |-> asEbool(FALSE),
                isAssessed |-> FALSE]]
       /\ events' = Emit(events, <<SensorDataReceived(newId, blockTimestamp)>>)
       /\ last' = Call("submitSensorData", newId, "none", "ok",
                       <<SensorDataReceived(newId, blockTimestamp)>>)
       /\ UNCHANGED <<encryptedSeepageThreshold, encryptedDeformationThreshold,
                      maintenanceHistory, blockTimestamp, coprocessor>>

\* submitSensorData(seepage, deformation, pressure) onlyOperator
submitSensorData(caller, seepage, deformation, pressure) ==
    /\ dataCount < MaxRecords
    /\ IF ~onlyOperator(caller)
       THEN Revert("submitSensorData", 0, "none", "Unauthorized")
       ELSE LET newId == dataCount + 1 IN
            /\ Mined
            /\ dataCount' = newId
            /\ sensorData' = [sensorData EXCEPT ![newId] =
                    [encryptedSeepage |-> seepage,
                     encryptedDeformation |-> deformation,
                     encryptedPressure |-> pressure,
                     timestamp |-> blockTimestamp]]
            /\ riskAssessments' = [riskAssessments EXCEPT ![newId] =
                    [encryptedRiskScore |-> asEuint32(0),
                     encryptedWarningFlag |-> asEbool(FALSE),
                     isAssessed |-> FALSE]]
            /\ events' = Emit(events, <<SensorDataReceived(newId, blockTimestamp)>>)
            /\ last' = Call("submitSensorData", newId, "none", "ok",
                            <<SensorDataReceived(newId, blockTimestamp)>>)
            /\ UNCHANGED <<encryptedSeepageThreshold, encryptedDeformationThreshold,
                           maintenanceHistory, blockTimestamp, coprocessor>>

\* Mutant of Ciphertexts5: the thresholds sent are the constructor's, not
\* the ones in storage.
Ciphertexts5_ConstructorThresholds(dataId) ==
    <<toBytes32(sensorData[dataId].encryptedSeepage),
      toBytes32(sensorData[dataId].encryptedDeformation),
      toBytes32(sensorData[dataId].encryptedPressure),
      toBytes32(asEuint32(DefaultSeepageThreshold)),
      toBytes32(asEuint32(DefaultDeformationThreshold))>>

\* The five ciphertexts sent with a computation request.
Ciphertexts5(dataId) ==
    <<toBytes32(sensorData[dataId].encryptedSeepage),
      toBytes32(sensorData[dataId].encryptedDeformation),
      toBytes32(sensorData[dataId].encryptedPressure),
      toBytes32(encryptedSeepageThreshold),
      toBytes32(encryptedDeformationThreshold)>>

\* Mutant of requestRiskAssessment: the require(!isAssessed) is missing.
requestRiskAssessment_NoRequire(caller, dataId) ==
    /\ Len(requests) < MaxRequests
    /\ requestCounter <= MaxId
    /\ Mined
    /\ requests' = Append(requests,
            [requestId |-> requestCounter, dataId |-> dataId,
             ciphertexts |-> Ciphertexts5(dataId)])
    /\ requestCounter' = requestCounter + 1
    /\ events' = Emit(events, <<RiskAssessmentRequested(dataId)>>)
    /\ last' = Call("requestRiskAssessment", dataId, "none", "ok",
                    <<RiskAssessmentRequested(dataId)>>)
    /\ UNCHANGED <<storage, blockTimestamp, delivered>>

\* requestRiskAssessment(dataId) onlyOperator
requestRiskAssessment(caller, dataId) ==
    /\ Len(requests) < MaxRequests
    /\ requestCounter <= MaxId
    /\ IF ~onlyOperator(caller)
       THEN Revert("requestRiskAssessment", dataId, "none", "Unauthorized")
       ELSE IF riskAssessments[dataId].isAssessed
       THEN Revert("requestRiskAssessment", dataId, "none", "AlreadyAssessed")
       ELSE /\ Mined
            /\ requests' = Append(requests,
                    [requestId |-> requestCounter, dataId |-> dataId,
                     ciphertexts |-> Ciphertexts5(dataId)])
            /\ requestCounter' = requestCounter + 1
            /\ events' = Emit(events, <<RiskAssessmentRequested(dataId)>>)
            /\ last' = Call("requestRiskAssessment", dataId, "none", "ok",
                            <<RiskAssessmentRequested(dataId)>>)
            /\ UNCHANGED <<storage, blockTimestamp, delivered>>

\* Mutant of assessRisk: the result is stored before the proof is looked at,
\* and a bad proof is only reported.
assessRisk_WriteBeforeCheck(requestId, results, proof) ==
    LET decoded == abiDecode(results)
        valid == checkSignatures(requestId, results, proof)
        emitted == IF decoded[2] /\ valid
                   THEN <<RiskWarningGenerated(requestId)>> ELSE <<>>
    IN
    /\ decoded[2] => WarningsLogged < MaxWarnings
    /\ Mined
    /\ riskAssessments' = [riskAssessments EXCEPT ![requestId] =
            [encryptedRiskScore |-> asEuint32(decoded[1]),
             encryptedWarningFlag |-> asEbool(decoded[2]),
             isAssessed |-> TRUE]]
    /\ events' = Emit(events, emitted)
    /\ delivered' = IF valid THEN delivered \cup {requestId} ELSE delivered
    /\ last' = Call("assessRisk", requestId, proof,
                    IF valid THEN "ok" ELSE "InvalidProof", emitted)
    /\ UNCHANGED <<sensorData, dataCount, encryptedSeepageThreshold,
                   encryptedDeformationThreshold, maintenanceHistory,
                   blockTimestamp, requestCounter, requests>>

\* Mutant of assessRisk: FHE.checkSignatures is not called.
assessRisk_SkipCheck(requestId, results, proof) ==
    LET decoded == abiDecode(results)
        emitted == IF decoded[2] THEN <<RiskWarningGenerated(requestId)>> ELSE <<>>
    IN
    /\ decoded[2] => WarningsLogged < MaxWarnings
    /\ Mined
    /\ riskAssessments' = [riskAssessments EXCEPT ![requestId] =
            [encryptedRiskScore |-> asEuint32(decoded[1]),
             encryptedWarningFlag |-> asEbool(decoded[2]),
             isAssessed |-> TRUE]]
    /\ events' = Emit(events, emitted)
    /\ delivered' = delivered \cup {requestId}
    /\ last' = Call("assessRisk", requestId, proof, "ok", emitted)
    /\ UNCHANGED <<sensorData, dataCount, encryptedSeepageThreshold,
                   encryptedDeformationThreshold, maintenanceHistory,
                   blockTimestamp, requestCounter, requests>>

\* Mutant of assessRisk: the callback also restamps the sensor record.
assessRisk_RestampsRecord(requestId, results, proof) ==
    LET decoded == abiDecode(results)
        emitted == IF decoded[2] THEN <<RiskWarningGenerated(requestId)>> ELSE <<>>
    IN
    /\ decoded[2] => WarningsLogged < MaxWarnings
    /\ IF ~checkSignatures(requestId, results, proof)
       THEN Revert("assessRisk", requestId, proof, "InvalidProof")
       ELSE /\ Mined
            /\ riskAssessments' = [riskAssessments EXCEPT ![requestId] =
                    [encryptedRiskScore |-> asEuint32(decoded[1]),
                     encryptedWarningFlag |-> asEbool(decoded[2]),
                     isAssessed |-> TRUE]]
            /\ sensorData' = [sensorData EXCEPT ![requestId].timestamp = blockTimestamp]
            /\ events' = Emit(events, emitted)
            /\ delivered' = delivered \cup {requestId}
            /\ last' = Call("assessRisk", requestId, proof, "ok", emitted)
            /\ UNCHANGED <<dataCount, encryptedSeepageThreshold,
                           encryptedDeformationThreshold, maintenanceHistory,
                           blockTimestamp, requestCounter, requests>>

\* Mutant of assessRisk: RiskWarningGenerated is emitted whatever the flag.
assessRisk_AlwaysWarns(requestId, results, proof) ==
    LET decoded == abiDecode(results)
        emitted == <<RiskWarningGenerated(requestId)>>
    IN
    /\ WarningsLogged < MaxWarnings
    /\ IF ~checkSignatures(requestId, results, proof)
       THEN Revert("assessRisk", requestId, proof, "InvalidProof")
       ELSE /\ Mined
            /\ riskAssessments' = [riskAssessments EXCEPT ![requestId] =
                    [encryptedRiskScore |-> asEuint32(decoded[1]),
                     encryptedWarningFlag |-> asEbool(decoded[2]),
                     isAssessed |-> TRUE]]
            /\ events' = Emit(events, emitted)
            /\ delivered' = delivered \cup {requestId}
            /\ last' = Call("assessRisk", requestId, proof, "ok", emitted)
            /\ UNCHANGED <<sensorData, dataCount, encryptedSeepageThreshold,
                           encryptedDeformationThreshold, maintenanceHistory,
                           blockTimestamp, requestCounter, requests>>

\* Mutant of assessRisk: isAssessed is set to the delivered flag, so a
\* callback without warning puts an assessed record back to unassessed.
assessRisk_MarksOnWarningOnly(requestId, results, proof) ==
    LET decoded == abiDecode(results)
        riskScore == decoded[1]
        warningFlag == decoded[2]
        emitted == IF warningFlag THEN <<RiskWarningGenerated(requestId)>> ELSE <<>>
    IN
    /\ warningFlag => WarningsLogged < MaxWarnings
    /\ IF ~checkSignatures(requestId, results, proof)
       THEN Revert("assessRisk", requestId, proof, "InvalidProof")
       ELSE /\ Mined
            /\ riskAssessments' = [riskAssessments EXCEPT ![requestId] =
                    [encryptedRiskScore |-> asEuint32(riskScore),
                     encryptedWarningFlag |-> asEbool(warningFlag),
                     isAssessed |-> warningFlag]]
            /\ events' = Emit(events, emitted)
            /\ delivered' = delivered \cup {requestId}
            /\ last' = Call("assessRisk", requestId, proof, "ok", emitted)
            /\ UNCHANGED <<sensorData, dataCount, encryptedSeepageThreshold,
                           encryptedDeformationThreshold, maintenanceHistory,
                           blockTimestamp, requestCounter, requests>>

\* assessRisk(requestId, results, proof): the coprocessor's callback, public
assessRisk(requestId, results, proof) ==
    LET decoded == abiDecode(results)
        riskScore == decoded[1]
        warningFlag == decoded[2]
        emitted == IF warningFlag THEN <<RiskWarningGenerated(requestId)>> ELSE <<>>
    IN
    /\ warningFlag => WarningsLogged < MaxWarnings
    /\ IF ~checkSignatures(requestId, results, proof)
       THEN Revert("assessRisk", requestId, proof, "InvalidProof")
       ELSE /\ Mined
            /\ riskAssessments' = [riskAssessments EXCEPT ![requestId] =
                    [encryptedRiskScore |-> asEuint32(riskScore),
                     encryptedWarningFlag |-> asEbool(warningFlag),
                     isAssessed |-> TRUE]]
            /\ events' = Emit(events, emitted)
            /\ delivered' = delivered \cup {requestId}
            /\ last' = Call("assessRisk", requestId, proof, "ok", emitted)
            /\ UNCHANGED <<sensorData, dataCount, encryptedSeepageThreshold,
                           encryptedDeformationThreshold, maintenanceHistory,
                           blockTimestamp, requestCounter, requests>>

\* Mutant of recordMaintenance: the history is assigned, not pushed to.
recordMaintenance_Overwrites(caller, damId, action) ==
    /\ Len(maintenanceHistory[damId]) < MaxHistory
    /\ Mined
    /\ maintenanceHistory' = [maintenanceHistory EXCEPT ![damId] =
            <<[timestamp |-> blockTimestamp, action |-> action]>>]
    /\ events' = Emit(events, <<MaintenanceRecorded(damId, action)>>)
    /\ last' = Call("recordMaintenance", damId, "none", "ok",
                    <<MaintenanceRecorded(damId, action)>>)
    /\ UNCHANGED <<sensorData, riskAssessments, dataCount,
                   encryptedSeepageThreshold, encryptedDeformationThreshold,
                   blockTimestamp, coprocessor>>

\* FHE.decrypt of an ebool handle; the null handle decrypts to false.
decrypt(h) == h.val = 1

\* Mutant of getEncryptedRiskScore: the require(isAssessed) is missing.
getEncryptedRiskScore_NoRequire(dataId) ==
    [outcome |-> "ok", value |-> riskAssessments[dataId].encryptedRiskScore]

\* getEncryptedRiskScore(dataId) view: what the caller gets back.
getEncryptedRiskScore(dataId) ==
    IF ~riskAssessments[dataId].isAssessed
    THEN [outcome |-> "Not assessed"]
    ELSE [outcome |-> "ok", value |-> riskAssessments[dataId].encryptedRiskScore]

\* hasWarning(dataId) view: what the caller gets back.
hasWarning(dataId) ==
    IF ~riskAssessments[dataId].isAssessed
    THEN [outcome |-> "Not assessed"]
    ELSE [outcome |-> "ok",
          value |-> decrypt(riskAssessments[dataId].encryptedWarningFlag)]

\* getMaintenanceHistory(damId): the whole array, oldest entry first.
getMaintenanceHistory(damId) == maintenanceHistory[damId]

\* recordMaintenance(damId, action) onlyOperator
recordMaintenance(caller, damId, action) ==
    /\ Len(maintenanceHistory[damId]) < MaxHistory
    /\ IF ~onlyOperator(caller)
       THEN Revert("recordMaintenance", damId, "none", "Unauthorized")
       ELSE /\ Mined
            /\ maintenanceHistory' = [maintenanceHistory EXCEPT ![damId] =
                    Append(@, [timestamp |-> blockTimestamp, action |-> action])]
            /\ events' = Emit(events, <<MaintenanceRecorded(damId, action)>>)
            /\ last' = Call("recordMaintenance", damId, "none", "ok",
                            <<MaintenanceRecorded(damId, action)>>)
            /\ UNCHANGED <<sensorData, riskAssessments, dataCount,
                           encryptedSeepageThreshold, encryptedDeformationThreshold,
                           blockTimestamp, coprocessor>>

\* updateSafetyThresholds(newSeepageThreshold, newDeformationThreshold) onlyOperator
updateSafetyThresholds(caller, newSeepageThreshold, newDeformationThreshold) ==
    IF ~onlyOperator(caller)
    THEN Revert("updateSafetyThresholds", 0, "none", "Unauthorized")
    ELSE /\ Mined
         /\ encryptedSeepageThreshold' = newSeepageThreshold
         /\ encryptedDeformationThreshold' = newDeformationThreshold
         /\ last' = Call("updateSafetyThresholds", 0, "none", "ok", <<>>)
         /\ UNCHANGED <<sensorData, riskAssessments, dataCount, maintenanceHistory,
                        events, blockTimestamp, coprocessor>>

\* A later block: block.timestamp never decreases.
MineBlock ==
    /\ blockTimestamp < MaxTimestamp
    /\ blockTimestamp' = blockTimestamp + 1
    /\ Mined
    /\ UNCHANGED <<storage, events, coprocessor, last>>

Next ==
    \/ \E c \in Callers, r \in SensorReadings : submitSensorData(c, r[1], r[2], r[3])
    \/ \E c \in Callers, i \in Ids : requestRiskAssessment(c, i)
    \/ \E r \in Ids, res \in ResultPayloads, pr \in Proofs : assessRisk(r, res, pr)
    \/ \E c \in Callers, dam \in Dams, a \in ActionTexts : recordMaintenance(c, dam, a)
    \/ \E c \in Callers, t \in ThresholdUpdates : updateSafetyThresholds(c, t[1], t[2])
    \/ MineBlock

Spec == Init /\ [][Next]_vars

\* ------------------------------------------------- vocabulary of the claims
\* The caller holds operator capability.
IsOperator(caller) == caller = "operator"

\* Request ids requestRiskAssessment has obtained from the coprocessor.
Issued == {requests[i].requestId : i \in 1..Len(requests)}

\* A PendingRequest is live from its registration to its first successful callback.
Live == Issued \ delivered

\* The record a request id was registered for.
RecordOf(requestId) ==
    (CHOOSE q \in {requests[i] : i \in 1..Len(requests)} : q.requestId = requestId).dataId

\* The live requests registered for a record.
LiveFor(dataId) ==
    {i \in 1..Len(requests) :
        requests[i].dataId = dataId /\ requests[i].requestId \notin delivered}

\* Ids of the records submitSensorData has created.
Records == 1..dataCount

\* This step is a call of `op` (a reverted call repeated verbatim is a stutter).
Called(op) ==
    /\ last'.op = op
    /\ blockTimestamp' = blockTimestamp
    /\ <<last, steps>>' # <<last, steps>>

\* ------------------------------------------------------------------ claims
\* C1: for every issued requestId, deliverAssessment succeeds at most once; a
\* second call with a valid proof fails with UnknownRequest and leaves every
\* AssessmentRecord unchanged.  (The contract accepts the replay.)
C1_DeliverAtMostOnce ==
    [][\A r \in Issued \cap delivered :
        (Called("assessRisk") /\ last'.id = r /\ last'.proof = "valid")
            => (last'.outcome = "UnknownRequest"
                /\ riskAssessments' = riskAssessments)]_vars

\* C2: a successful delivery for a live request writes the flag and
\* isAssessed = TRUE into the record registered with that request, and leaves
\* every other AssessmentRecord unchanged.  (The contract writes the slot
\* numbered by the request id.)
C2_DeliveryWritesRegisteredRecord ==
    [][\A r \in Live :
        (Called("assessRisk") /\ last'.id = r /\ last'.outcome = "ok"
         /\ RecordOf(r) \in Records)
            => LET d == RecordOf(r) IN
               /\ riskAssessments'[d].isAssessed
               /\ riskAssessments'[d].encryptedWarningFlag
                    = asEbool(last'.emitted # <<>>)
               /\ \A o \in Ids \ {d} : riskAssessments'[o] = riskAssessments[o]]_vars

\* C3: a callback whose proof fails verification changes isAssessed, the
\* score and the warning flag of no record, whatever id and payload it has.
C3_InvalidProofNoWrite ==
    [][(Called("assessRisk") /\ last'.proof = "invalid")
        => riskAssessments' = riskAssessments]_vars

\* C3 witness: a callback with an invalid proof was just rejected for the id of
\* a submitted record that is still unassessed.
C3_Witness ==
    /\ last.op = "assessRisk" /\ last.proof = "invalid"
    /\ last.outcome = "InvalidProof"
    /\ last.id \in Records
    /\ ~riskAssessments[last.id].isAssessed
    /\ riskAssessments[last.id].encryptedRiskScore = asEuint32(0)

\* C4: for a live request, a callback with an invalid proof fails with
\* InvalidProof and consumes nothing (storage, log and the request are as
\* before, so the request is still live), and a callback with a valid proof
\* succeeds and consumes the request.
C4_ProofCheckPrecedesResolution ==
    [][\A r \in Live :
        (Called("assessRisk") /\ last'.id = r)
            => IF last'.proof = "invalid"
               THEN /\ last'.outcome = "InvalidProof"
                    /\ UNCHANGED <<storage, events, coprocessor>>
                    /\ r \in Live'
               ELSE /\ last'.outcome = "ok"
                    /\ r \notin Live']_vars

\* C4 witness: an invalid proof was just rejected for a request that is
\* still live, registered for a submitted record.
C4_Witness ==
    /\ last.op = "assessRisk" /\ last.outcome = "InvalidProof"
    /\ last.id \in Live
    /\ RecordOf(last.id) \in Records

\* C5: a callback for a request id that was never issued fails with
\* UnknownRequest, emits no event and changes no state, even with a proof
\* that verifies.  (The contract applies it.)
C5_UnknownRequestRejected ==
    [][(Called("assessRisk") /\ last'.proof = "valid" /\ last'.id \notin Issued)
        => (/\ last'.outcome = "UnknownRequest"
            /\ last'.emitted = <<>>
            /\ UNCHANGED <<storage, events, coprocessor>>)]_vars

\* C6: requestRiskAssessment on a record whose isAssessed is TRUE fails with
\* AlreadyAssessed, registers no request, sends no payload, emits nothing and
\* leaves all state unchanged.
C6_AlreadyAssessedRejected ==
    [][\A d \in Ids :
        (Called("requestRiskAssessment") /\ last'.id = d
         /\ riskAssessments[d].isAssessed)
            => (/\ last'.outcome = "AlreadyAssessed"
                /\ last'.emitted = <<>>
                /\ UNCHANGED <<storage, events, coprocessor>>)]_vars

\* C6 witness: a request for a submitted, assessed record was just rejected.
C6_Witness ==
    /\ last.op = "requestRiskAssessment" /\ last.outcome = "AlreadyAssessed"
    /\ last.id \in Records
    /\ riskAssessments[last.id].isAssessed

\* C7: every record has at most one live PendingRequest.  (The contract
\* registers a second request while the first is in flight.)
C7_OneLiveRequestPerRecord ==
    \A d \in Records : Cardinality(LiveFor(d)) <= 1

\* C8: a caller without operator capability invoking submitSensorData,
\* requestRiskAssessment, updateSafetyThresholds or recordMaintenance fails
\* with Unauthorized, changes no state and emits no event.  (onlyOperator
\* lets every caller through.)
C8_NonOperatorRejected ==
    [][\A c \in {x \in Callers : ~IsOperator(x)} :
        (\/ \E r \in SensorReadings : submitSensorData(c, r[1], r[2], r[3])
         \/ \E i \in Ids : requestRiskAssessment(c, i)
         \/ \E t \in ThresholdUpdates : updateSafetyThresholds(c, t[1], t[2])
         \/ \E dam \in Dams, a \in ActionTexts : recordMaintenance(c, dam, a))
            => (/\ last'.outcome = "Unauthorized"
                /\ last'.emitted = <<>>
                /\ UNCHANGED <<storage, events, coprocessor>>)]_vars

\* C9: isAssessed is monotone for every record: once the isAssessed of a
\* record created by submitSensorData is TRUE, it is TRUE after every step,
\* whichever operation the step is.
C9_IsAssessedMonotone ==
    [][\A i \in Records :
        riskAssessments[i].isAssessed => riskAssessments'[i].isAssessed]_vars

\* C9 witness: two records exist, record 1 was assessed, and a threshold
\* update has gone through since: record 1 is still assessed.
C9_Witness ==
    /\ last.op = "updateSafetyThresholds" /\ last.outcome = "ok"
    /\ dataCount = 2
    /\ riskAssessments[1].isAssessed
    /\ ~riskAssessments[2].isAssessed

\* C10: the score and the warning flag of a record change only in the step
\* in which its isAssessed goes from FALSE to TRUE.  (A replayed callback
\* rewrites them on an assessed record.)
C10_ScoreWrittenOnlyOnFlip ==
    [][\A i \in Records :
        (\/ riskAssessments'[i].encryptedRiskScore
                # riskAssessments[i].encryptedRiskScore
         \/ riskAssessments'[i].encryptedWarningFlag
                # riskAssessments[i].encryptedWarningFlag)
            => (~riskAssessments[i].isAssessed
                /\ riskAssessments'[i].isAssessed)]_vars

\* C11: right after a successful submitSensorData the new record's
\* AssessmentRecord is {ciphertext of 0, ciphertext of false, isAssessed =
\* FALSE} and the record has no PendingRequest.  (A request registered for
\* the id before the record existed is still in flight.)
C11_FreshRecordIsSubmitted ==
    (last.op = "submitSensorData" /\ last.outcome = "ok")
        => (/\ riskAssessments[last.id] =
                [encryptedRiskScore |-> asEuint32(0),
                 encryptedWarningFlag |-> asEbool(FALSE),
                 isAssessed |-> FALSE]
            /\ LiveFor(last.id) = {})

\* C12: every successful submitSensorData assigns the id dataCount + 1,
\* greater than every id assigned before, and leaves the sensor data and the
\* AssessmentRecord of every existing record as they were.
C12_IdsFreshAndIncreasing ==
    [][(Called("submitSensorData") /\ last'.outcome = "ok")
        => (/\ last'.id = dataCount + 1
            /\ dataCount' = dataCount + 1
            /\ \A i \in Records : last'.id > i
            /\ sensorData'[last'.id] # EmptySensorData
            /\ \A i \in Records :
                /\ sensorData'[i] = sensorData[i]
                /\ riskAssessments'[i] = riskAssessments[i])]_vars

\* C12 witness: the second record was just created while the first one,
\* already assessed, is still in place.
C12_Witness ==
    /\ last.op = "submitSensorData" /\ last.outcome = "ok"
    /\ last.id = 2 /\ dataCount = 2
    /\ riskAssessments[1].isAssessed
    /\ sensorData[1] # EmptySensorData

\* C13: the three sensor ciphertexts and the timestamp of a record never
\* change after its creation, whatever operation runs.
C13_SensorFieldsImmutable ==
    [][\A i \in Records : sensorData'[i] = sensorData[i]]_vars

\* C13 witness: a record submitted in an earlier block has been the target of
\* a successful callback and still carries its reading and timestamp.
C13_Witness ==
    /\ dataCount >= 1
    /\ sensorData[1].timestamp < blockTimestamp
    /\ sensorData[1].encryptedSeepage = InputHandle(11)
    /\ last.op = "assessRisk" /\ last.outcome = "ok" /\ last.id = 1

\* C14: the payload of a request is the record's three sensor ciphertexts
\* and the two thresholds in storage at the instant of the request; no later
\* step, a threshold update included, changes the payload of a request that
\* was already sent.
C14_PayloadSnapshotsThresholds ==
    [][/\ (Called("requestRiskAssessment") /\ last'.outcome = "ok")
            => (/\ Len(requests') = Len(requests) + 1
                /\ requests'[Len(requests')].dataId = last'.id
                /\ requests'[Len(requests')].ciphertexts =
                    <<toBytes32(sensorData[last'.id].encryptedSeepage),
                      toBytes32(sensorData[last'.id].encryptedDeformation),
                      toBytes32(sensorData[last'.id].encryptedPressure),
                      toBytes32(encryptedSeepageThreshold),
                      toBytes32(encryptedDeformationThreshold)>>)
       /\ \A i \in 1..Len(requests) :
            /\ i <= Len(requests')
            /\ requests'[i] = requests[i]]_vars

\* C14 witness: the thresholds were just replaced while a request for a
\* submitted record, sent with the constructor's thresholds, is in flight.
C14_Witness ==
    /\ last.op = "updateSafetyThresholds" /\ last.outcome = "ok"
    /\ encryptedSeepageThreshold = InputHandle(14)
    /\ \E i \in 1..Len(requests) :
        /\ requests[i].requestId \in Live
        /\ requests[i].dataId \in Records
        /\ requests[i].ciphertexts[1] = toBytes32(InputHandle(11))
        /\ requests[i].ciphertexts[4] = toBytes32(asEuint32(DefaultSeepageThreshold))
        /\ requests[i].ciphertexts[5] = toBytes32(asEuint32(DefaultDeformationThreshold))

\* C15: the maintenance history of every asset is append-only and ordered:
\* a successful recordMaintenance(dam, action) puts (block.timestamp, action)
\* after the entries already there, and every other step, and every record
\* for another asset, leaves getMaintenanceHistory(dam) as it was.
C15_HistoryAppendOnly ==
    [][\A dam \in Dams :
        LET before == getMaintenanceHistory(dam)
            after == getMaintenanceHistory(dam)'
        IN IF Called("recordMaintenance") /\ last'.outcome = "ok" /\ last'.id = dam
           THEN /\ Len(after) = Len(before) + 1
                /\ SubSeq(after, 1, Len(before)) = before
                /\ after[Len(after)] =
                    [timestamp |-> blockTimestamp,
                     action |-> last'.emitted[1].action]
           ELSE after = before]_vars

\* C15 witness: one asset has two entries in the order they were recorded,
\* in different blocks, and the other asset has an entry of its own.
C15_Witness ==
    /\ Len(getMaintenanceHistory(1)) = 2
    /\ getMaintenanceHistory(1)[1] = [timestamp |-> 0, action |-> "inspect"]
    /\ getMaintenanceHistory(1)[2] = [timestamp |-> 1, action |-> ""]
    /\ Len(getMaintenanceHistory(2)) = 1

\* C16: when a verified result with warningFlag = TRUE is delivered for a
\* request issued for a submitted record, that record's isAssessed becomes
\* TRUE and the log holds exactly one warning event for the record, replayed
\* deliveries of the same request included.  (The contract marks and names
\* the slot numbered by the request id, and warns again on every replay.)
C16_WarningFiresOnce ==
    [][\A r \in Issued :
        (/\ RecordOf(r) \in Records
         /\ \E res \in ResultPayloads :
                res.warningFlag /\ assessRisk(r, res, "valid"))
            => (/\ riskAssessments'[RecordOf(r)].isAssessed
                /\ CopiesIn(RiskWarningGenerated(RecordOf(r)), events') = 1)]_vars

\* C17 as stated: every successful callback emits exactly one outcome event,
\* a warning event if the delivered flag is set and a completion event
\* otherwise.  (The contract declares no completion event.)
C17_ExactlyOneOutcomeEvent ==
    [][(Called("assessRisk") /\ last'.outcome = "ok")
        => (/\ Len(last'.emitted) = 1
            /\ last'.emitted[1].name =
                IF riskAssessments'[last'.id].encryptedWarningFlag = asEbool(TRUE)
                THEN "RiskWarningGenerated" ELSE "AssessmentCompleted")]_vars

\* C17 amended: a successful callback emits RiskWarningGenerated(requestId),
\* once, if the delivered flag is set, and no event at all otherwise; the log
\* grows by exactly that.
C17_WarningIffFlag ==
    [][(Called("assessRisk") /\ last'.outcome = "ok")
        => LET warn == riskAssessments'[last'.id].encryptedWarningFlag = asEbool(TRUE)
               warning == RiskWarningGenerated(last'.id)
           IN IF warn
              THEN /\ last'.emitted = <<warning>>
                   /\ events' = events (+) SetToBag({warning})
              ELSE /\ last'.emitted = <<>>
                   /\ events' = events]_vars

\* C17 witness: a callback without warning just went through silently for a
\* submitted record, after an earlier callback had raised a warning.
C17_Witness ==
    /\ last.op = "assessRisk" /\ last.outcome = "ok" /\ last.emitted = <<>>
    /\ last.id \in Records
    /\ riskAssessments[last.id].encryptedWarningFlag = asEbool(FALSE)
    /\ WarningsLogged = 1

\* C18: every successful requestRiskAssessment obtains a request id that
\* differs from every id issued before, and a request id that was consumed is
\* never accepted again.  (The contract drops the id it obtains and accepts a
\* consumed id as often as it is delivered.)
C18_ConsumedIdNeverResolvable ==
    [][/\ (Called("requestRiskAssessment") /\ last'.outcome = "ok")
            => (Issued' \ Issued # {} /\ Issued \subseteq Issued')
       /\ \A r \in Issued \cap delivered :
            ~(Called("assessRisk") /\ last'.id = r /\ last'.outcome = "ok")]_vars

\* C19: a record becomes assessed only by a callback that consumes a live
\* request registered for that same record.  (Any callback with a valid
\* proof marks the slot it names.)
C19_AssessedOnlyThroughPending ==
    [][\A i \in Records :
        (~riskAssessments[i].isAssessed /\ riskAssessments'[i].isAssessed)
            => (/\ Called("assessRisk")
                /\ last'.id \in Live
                /\ RecordOf(last'.id) = i
                /\ last'.id \notin Live')]_vars

\* C20: every record is in exactly one of Submitted, Pending, Assessed: an
\* assessed record has no live request, and a record with a live request is
\* not assessed.  (A callback for another request id assesses a record whose
\* own request stays in flight.)
C20_OneStatePerRecord ==
    \A i \in Records : ~(riskAssessments[i].isAssessed /\ LiveFor(i) # {})

\* C21: a live PendingRequest of a submitted record is removed only by a callback with a valid
\* proof for its own request id, no step changes what was registered for it,
\* and while it is live every requestRiskAssessment for its record fails.
\* (The contract keeps no PendingRequest, so the record can be requested
\* again while its request is in flight.)
C21_PendingOnlyRemovedByDelivery ==
    [][\A i \in 1..Len(requests) :
        LET q == requests[i] IN
        (q.requestId \in Live /\ q.dataId \in Records) =>
            /\ i <= Len(requests') /\ requests'[i] = q
            /\ q.requestId \notin Live'
                => (/\ Called("assessRisk")
                    /\ last'.id = q.requestId
                    /\ last'.proof = "valid"
                    /\ last'.outcome = "ok")
            /\ (Called("requestRiskAssessment") /\ last'.id = q.dataId)
                => last'.outcome # "ok"]_vars

\* C22: requestRiskAssessment for an id no submit has created (0, or above
\* dataCount) does not succeed: no request reaches the coprocessor and no
\* event is emitted.  (The contract never looks at dataCount here.)
C22_UnknownRecordNotRequested ==
    [][(Called("requestRiskAssessment") /\ last'.id \notin Records)
        => (/\ last'.outcome # "ok"
            /\ requests' = requests
            /\ events' = events)]_vars

\* C23: every slot with isAssessed = TRUE belongs to a record created by
\* submitSensorData (1 <= id <= dataCount).  (A callback marks whatever slot
\* its request id names.)
C23_AssessedImpliesSubmitted ==
    \A i \in Ids : riskAssessments[i].isAssessed => i \in Records

\* requestRiskAssessment has just gone through for this submitted record,
\* and the request it sent is in flight.
JustRequested(dataId) ==
    /\ dataId \in Records
    /\ last.op = "requestRiskAssessment" /\ last.outcome = "ok"
    /\ last.id = dataId
    /\ requests # <<>> /\ requests[Len(requests)].requestId \in Live

\* The coprocessor answers request r: the callback for a request that is in
\* flight, with a valid proof.
Deliver(r) ==
    /\ r \in Live
    /\ \E res \in ResultPayloads : assessRisk(r, res, "valid")

\* The contract together with a coprocessor that answers every request it
\* is sent.
FairSpec == Spec /\ \A r \in Ids : WF_vars(Deliver(r))

\* C24: under a coprocessor that answers every request, every submitted
\* record for which requestRiskAssessment succeeds eventually has
\* isAssessed = TRUE, unless the bounded run runs out of steps first.  (The
\* callback marks the slot numbered by the request id, so the record itself
\* can stay unassessed for ever after its request was answered.)
C24_RequestedEventuallyAssessed ==
    \A i \in 1..MaxRecords :
        [](JustRequested(i)
            => <>(riskAssessments[i].isAssessed \/ steps = MaxSteps))

\* What the two result readers answer for an id, in one state: both succeed
\* if the slot is assessed and both revert with "Not assessed" otherwise,
\* handing out nothing; a score handed out is never the null handle.
ReadersGated(dataId) ==
    LET score == getEncryptedRiskScore(dataId)
        warning == hasWarning(dataId)
    IN IF riskAssessments[dataId].isAssessed
       THEN /\ score.outcome = "ok" /\ score.value # NullHandle
            /\ warning.outcome = "ok" /\ warning.value \in BOOLEAN
       ELSE /\ score = [outcome |-> "Not assessed"]
            /\ warning = [outcome |-> "Not assessed"]

\* C25: getEncryptedRiskScore and hasWarning succeed exactly for the ids
\* whose isAssessed is TRUE, never-submitted ids included; right after a
\* successful callback for an id they return the score that callback
\* delivered and its flag (the flag the callback warned on, or not), and what they answer changes at no other step, except
\* that the submit creating the id puts it back to "Not assessed".  (The
\* readers depend on riskAssessments alone: they are looked at before the
\* first transaction and after every step that changes riskAssessments.)
C25_ReadersGatedByIsAssessed ==
    [][/\ steps = 0 => \A i \in Ids : ReadersGated(i)
       /\ riskAssessments' # riskAssessments =>
            \A i \in Ids :
                /\ ReadersGated(i)'
                /\ IF Called("assessRisk") /\ last'.id = i /\ last'.outcome = "ok"
                   THEN /\ getEncryptedRiskScore(i)' \in
                            {[outcome |-> "ok", value |-> asEuint32(res.riskScore)] :
                                res \in ResultPayloads}
                        /\ hasWarning(i)' =
                            [outcome |-> "ok", value |-> last'.emitted # <<>>]
                   ELSE \/ /\ getEncryptedRiskScore(i)' = getEncryptedRiskScore(i)
                           /\ hasWarning(i)' = hasWarning(i)
                        \/ /\ Called("submitSensorData") /\ last'.id = i
                           /\ ~riskAssessments'[i].isAssessed]_vars

\* C25 witness: a callback has just assessed a submitted record, whose
\* readers now return the delivered score and a raised warning, while
\* another submitted record still answers "Not assessed".
C25_Witness ==
    /\ last.op = "assessRisk" /\ last.outcome = "ok" /\ last.id \in Records
    /\ getEncryptedRiskScore(last.id) = [outcome |-> "ok", value |-> asEuint32(7)]
    /\ hasWarning(last.id) = [outcome |-> "ok", value |-> TRUE]
    /\ \E j \in Records :
        /\ getEncryptedRiskScore(j).outcome = "Not assessed"
        /\ hasWarning(j).outcome = "Not assessed"

\* C26: recordMaintenance called by an operator with an empty action text
\* fails with InvalidInput and appends nothing; with a non-empty text it
\* succeeds and appends exactly one entry (block.timestamp, action) to the
\* dam's history.  (The contract accepts the empty text.)
C26_EmptyActionRejected ==
    [][\A c \in Callers, dam \in Dams, a \in ActionTexts :
        (IsOperator(c) /\ recordMaintenance(c, dam, a))
            => IF a = ""
               THEN /\ last'.outcome = "InvalidInput"
                    /\ maintenanceHistory' = maintenanceHistory
               ELSE /\ last'.outcome = "ok"
                    /\ getMaintenanceHistory(dam)' =
                        Append(getMaintenanceHistory(dam),
                               [timestamp |-> blockTimestamp, action |-> a])]_vars

====
